---- MODULE Spec2Model ----
(***************************************************************************)
(* Transaction write-set preparation (prepareTxOps) of the validation      *)
(* package: core/ledger/kvledger/txmgmt/validation/tx_ops.go.              *)
(*                                                                         *)
(* One run of prepareTxOps is modelled as a sequential program: the        *)
(* projection applyTxRwset walks the RWSet item by item, then the merge    *)
(* loop visits the entries of the txOps map in an arbitrary order.  The    *)
(* RWSet, the staging buffer and the state DB are inputs: each item and    *)
(* each lookup answer is drawn from a small set when the code reads it.    *)
(*                                                                         *)
(* Strings and byte slices are sequences of one-character strings, so      *)
(* that strings.HasSuffix and strings.Split are computed, not assumed.     *)
(***************************************************************************)
EXTENDS Integers, Sequences, FiniteSets, TLC

VARIABLES
    pc,               \* position in prepareTxOps / applyTxRwset
    lineageSupported, \* localconfig.LineageSupported()
    isOCC,            \* localconfig.IsOCC()
    txops,            \* the txOps map: compositeKey -> keyOps
    ns,               \* nsRWSet.NameSpace of the namespace being walked
    coll,             \* collHashRWset.CollectionName being walked
    Writes,           \* nsRWSet.KvRwSet.Writes of the namespace being walked
    wi,               \* index of the next element of Writes
    deps,             \* the local map deps of applyTxRwset
    depSnapshot,      \* the local depSnapshot of applyTxRwset
    items,            \* number of RWSet items projected so far
    pending,          \* entries the merge loop has still to visit
    ret,              \* what prepareTxOps returned: [txops, err]
    projected,        \* history: txops as applyTxRwset left it
    lookups,          \* history: resolver reads of the merge loop, per key
    ref,              \* history: per key, the set of flag bits of the primitives
                      \* applied and the payload last written to each slot
    droppedErr,       \* history: applyMetadata returned a serializer error
    provElsewhere     \* history: a metadata or hashed write had a "_prov" key

vars == <<pc, lineageSupported, isOCC, txops, ns, coll, Writes, wi, deps,
          depSnapshot, items, pending, ret, projected, lookups, ref,
          droppedErr, provElsewhere>>

---------------------------------------------------------------------------
(* Bounds and input sets *)

\* total number of RWSet items (writes, metadata writes, hashed writes,
\* hashed metadata writes) one RWSet carries
MaxItems == 2

\* nil []byte / nil slice, distinct from the empty slice <<>>
Nil == <<"<nil>">>
NilDeps == <<Nil>>

Namespaces == {"n"}
Collections == {"c"}

Key_x == <<"x">>
Key_x_y == <<"x", "_", "y">>
Key_x_prov == <<"x", "_", "p", "r", "o", "v">>
Key_x_y_prov == <<"x", "_", "y", "_", "p", "r", "o", "v">>

RealKeys == {Key_x, Key_x_y}
MarkerKeys == {Key_x_prov, Key_x_y_prov}
\* keys of metadata writes
SideKeys == {Key_x, Key_x_prov}
\* key hashes of hashed writes: opaque bytes, which may end in "_prov"
HashKeys == {Key_x, Key_x_prov}

Val_v == <<"v">>
Val_w == <<"w">>
\* a marker's value: "y_z_", with an empty last segment
Val_y_z_ == <<"y", "_", "z", "_">>

\* kvrwset.KVWrite: (Key, Value, IsDelete)
WriteInputs ==
    [key : RealKeys, value : {Val_v, Val_w}, isDelete : {FALSE}]
      \cup [key : RealKeys, value : {Nil}, isDelete : {TRUE}]
      \cup [key : MarkerKeys, value : {Val_y_z_}, isDelete : {FALSE}]

\* kvrwset.HashedWrite turned into a KVWrite (lines 129-133)
HashedWriteInputs ==
    [key : HashKeys, value : {Val_v}, isDelete : {FALSE}]
      \cup [key : HashKeys, value : {Nil}, isDelete : {TRUE}]

\* Entries of a metadata write: nil, a zero-length list, a list, and a list
\* the serializer rejects
Entries_e == <<"e">>
Entries_bad == <<"bad">>
EntriesInputs == {Nil, <<>>, Entries_e, Entries_bad}
MetadataWriteInputs == [key : SideKeys, entries : EntriesInputs]
HashedMetadataWriteInputs == [key : HashKeys, entries : EntriesInputs]

\* kvrwset.KVRead: Version is nil or carries BlockNum
BlockNums == {7}
ReadInputs ==
    [hasVersion : {TRUE}, blockNum : BlockNums]
      \cup [hasVersion : {FALSE}, blockNum : {0}]
ReadsInputs == {<<>>} \cup {<<r>> : r \in ReadInputs}
                 \cup {<<r, s>> : r \in ReadInputs, s \in ReadInputs}

\* sequences over S of length at most n
SeqsUpTo(S, n) == UNION {[1..k -> S] : k \in 0..n}

---------------------------------------------------------------------------
(* statedb.VersionedValue, the staging buffer and the state DB *)

NoErr == "nil"
DbErr == "db error"
SerializeErr == "serialize error"

NilVV == [exists |-> FALSE, value |-> Nil, metadata |-> Nil]
StagedVV == [exists |-> TRUE, value |-> <<"s">>, metadata |-> <<"m", "s">>]
\* a key deleted earlier in the block: staged with a nil value
StagedDeleted == [exists |-> TRUE, value |-> Nil, metadata |-> Nil]
CommittedVV == [exists |-> TRUE, value |-> <<"d">>, metadata |-> <<"m", "d">>]

\* answers of publicUpdates.Get / hashUpdates.Get
StagedInputs == {NilVV, StagedVV, StagedDeleted}
\* answers of the state DB: (value, err)
DbInputs == {[vv |-> NilVV, err |-> NoErr],
             [vv |-> CommittedVV, err |-> NoErr],
             [vv |-> NilVV, err |-> DbErr]}
\* the DB was not consulted
NoDb == [vv |-> NilVV, err |-> "not read"]

\* db.GetState / db.GetValueHash
GetState(dbAnswer) == [vv |-> dbAnswer.vv, err |-> dbAnswer.err]
\* db.GetStateMetadata / db.GetPrivateDataMetadataByHash
GetStateMetadata(dbAnswer) ==
    [metadata |-> IF dbAnswer.vv.exists THEN dbAnswer.vv.metadata ELSE Nil,
     err |-> dbAnswer.err]

\* statemetadata.Serialize
Serialize(entries) ==
    IF \E i \in 1..Len(entries) : entries[i] = "bad"
    THEN [bytes |-> Nil, err |-> SerializeErr]
    ELSE [bytes |-> <<"M">> \o entries, err |-> NoErr]

---------------------------------------------------------------------------
(* strings *)

ProvSuffix == <<"_", "p", "r", "o", "v">>

\* strings.HasSuffix
HasSuffix(s, suffix) ==
    /\ Len(s) >= Len(suffix)
    /\ SubSeq(s, Len(s) - Len(suffix) + 1, Len(s)) = suffix

\* strings.Split(s, sep) for a one-character separator
RECURSIVE Split(_, _)
Split(s, sep) ==
    IF \A i \in 1..Len(s) : s[i] # sep
    THEN <<s>>
    ELSE LET i == CHOOSE i \in 1..Len(s) :
                    s[i] = sep /\ \A j \in 1..(i - 1) : s[j] # sep
         IN  <<SubSeq(s, 1, i - 1)>> \o Split(SubSeq(s, i + 1, Len(s)), sep)

\* string(b) of a byte slice: nil converts to the empty string
BytesToString(b) == IF b = Nil THEN <<>> ELSE b

\* a Go map with key k set to v
MapPut(m, k, v) == [x \in DOMAIN m \cup {k} |-> IF x = k THEN v ELSE m[x]]
MapDelete(m, k) == [x \in DOMAIN m \ {k} |-> m[x]]
EmptyMap == <<>>

---------------------------------------------------------------------------
(* keyOpsFlag, compositeKey, keyOps *)

upsertVal == 1
metadataUpdate == 2
metadataDelete == 4
keyDelete == 8
\* keyOpsFlag is a uint8
Uint8Mod == 256
\* math.MaxUint64; only assigned and compared, so TLC's largest integer
\* stands for it
MaxUint64 == 2147483647

FlagBits == {upsertVal, metadataUpdate, metadataDelete, keyDelete}

\* flag & bit == bit, for a single bit
HasBit(flag, bit) == (flag \div bit) % 2 = 1
\* flag | bit, for a single bit
BitOr(flag, bit) == IF HasBit(flag, bit) THEN flag ELSE flag + bit

compositeKey(n, c, k) == [ns |-> n, coll |-> c, key |-> k]

ZeroKeyOps ==
    [flag |-> 0, value |-> Nil, metadata |-> Nil, deps |-> NilDeps,
     depSnapshot |-> 0]

\* keyops.flag += bit
FlagAdd(flag, bit) == (flag + bit) % Uint8Mod

getOrCreateKeyEntry(t, k) == IF k \in DOMAIN t THEN t ELSE MapPut(t, k, ZeroKeyOps)

upsert(t, k, val) ==
    LET t1 == getOrCreateKeyEntry(t, k)
    IN  [t1 EXCEPT ![k].flag = FlagAdd(@, upsertVal), ![k].value = val]

delete(t, k) ==
    LET t1 == getOrCreateKeyEntry(t, k)
    IN  [t1 EXCEPT ![k].flag = FlagAdd(@, keyDelete)]

upsertWithDep(t, k, val, d, snap) ==
    LET t1 == getOrCreateKeyEntry(t, k)
    IN  [t1 EXCEPT ![k].flag = FlagAdd(@, upsertVal), ![k].value = val,
                   ![k].deps = d, ![k].depSnapshot = snap]

deleteWithDep(t, k, d, snap) ==
    LET t1 == getOrCreateKeyEntry(t, k)
    IN  [t1 EXCEPT ![k].flag = FlagAdd(@, keyDelete),
                   ![k].deps = d, ![k].depSnapshot = snap]

txopsMetadataUpdate(t, k, metadata) ==
    LET t1 == getOrCreateKeyEntry(t, k)
    IN  [t1 EXCEPT ![k].flag = FlagAdd(@, metadataUpdate), ![k].metadata = metadata]

txopsMetadataDelete(t, k) ==
    LET t1 == getOrCreateKeyEntry(t, k)
    IN  [t1 EXCEPT ![k].flag = FlagAdd(@, metadataDelete)]

\* variant: a delete is recognised only when KEY_DELETE is the sole bit
isDelete_SoleBit(keyops) == keyops.flag = keyDelete

isDelete(keyops) == HasBit(keyops.flag, keyDelete)

\* variant: METADATA_DELETE is not counted as a metadata dimension
isUpsertAndMetadataUpdate_NoDelete(keyops) ==
    IF HasBit(keyops.flag, upsertVal)
    THEN HasBit(keyops.flag, metadataUpdate)
    ELSE FALSE

isUpsertAndMetadataUpdate(keyops) ==
    IF HasBit(keyops.flag, upsertVal)
    THEN HasBit(keyops.flag, metadataUpdate) \/ HasBit(keyops.flag, metadataDelete)
    ELSE FALSE

isOnlyUpsert(keyops) == BitOr(keyops.flag, upsertVal) = upsertVal

---------------------------------------------------------------------------
(* applyTxRwset and its helpers *)

\* applyKVWrite records upsertion/deletion of a kvwrite
applyKVWrite(t, n, c, kvWrite) ==
    IF kvWrite.isDelete
    THEN delete(t, compositeKey(n, c, kvWrite.key))
    ELSE upsert(t, compositeKey(n, c, kvWrite.key), kvWrite.value)

applyKVWriteWithDep(t, n, c, kvWrite, d, snap) ==
    IF kvWrite.isDelete
    THEN deleteWithDep(t, compositeKey(n, c, kvWrite.key), d, snap)
    ELSE upsertWithDep(t, compositeKey(n, c, kvWrite.key), kvWrite.value, d, snap)

\* applyMetadata records updatation/deletion of a metadataWrite; it returns
\* the serializer's error without touching the map
applyMetadata(t, n, c, metadataWrite) ==
    IF metadataWrite.entries = Nil
    THEN [txops |-> txopsMetadataDelete(t, compositeKey(n, c, metadataWrite.key)),
          err |-> NoErr]
    ELSE LET s == Serialize(metadataWrite.entries)
         IN  IF s.err # NoErr
             THEN [txops |-> t, err |-> s.err]
             ELSE [txops |-> txopsMetadataUpdate(
                                 t, compositeKey(n, c, metadataWrite.key), s.bytes),
                   err |-> NoErr]

\* the loop over Reads (lines 67-82): the last read decides under OCC
RECURSIVE readSnapshot(_, _, _)
readSnapshot(reads, occ, snap) ==
    IF reads = <<>>
    THEN snap
    ELSE LET kvRead == Head(reads)
             next == IF occ
                     THEN IF ~kvRead.hasVersion THEN MaxUint64 ELSE kvRead.blockNum
                     ELSE snap
         IN  readSnapshot(Tail(reads), occ, next)

\* the dependency keys a marker's value encodes (lines 93-98)
depKeysOf(value) ==
    SelectSeq(Split(BytesToString(value), "_"), LAMBDA dk : dk # <<>>)

\* the key a marker's key names (line 92)
markerTarget(key) == Split(key, "_")[1]

\* the loop over Writes that builds deps (lines 85-100)
RECURSIVE buildDeps(_, _)
buildDeps(writes, acc) ==
    IF writes = <<>>
    THEN acc
    ELSE LET kvWrite == Head(writes)
         IN  buildDeps(Tail(writes),
                       IF ~HasSuffix(kvWrite.key, ProvSuffix)
                       THEN acc
                       ELSE MapPut(acc, markerTarget(kvWrite.key),
                                   depKeysOf(kvWrite.value)))

\* variant: the second loop does not skip the markers
applyRealWrite_NoSkip(t, n, kvWrite, d, snap) ==
    LET keyDeps == IF kvWrite.key \in DOMAIN d THEN d[kvWrite.key] ELSE <<>>
    IN  applyKVWriteWithDep(t, n, "", kvWrite, keyDeps, snap)

\* one iteration of the second loop over Writes (lines 102-111)
applyRealWrite(t, n, kvWrite, d, snap) ==
    IF HasSuffix(kvWrite.key, ProvSuffix)
    THEN t
    ELSE LET keyDeps == IF kvWrite.key \in DOMAIN d THEN d[kvWrite.key] ELSE <<>>
         IN  applyKVWriteWithDep(t, n, "", kvWrite, keyDeps, snap)

---------------------------------------------------------------------------
(* the preceding-state resolver.  staged is the answer of the staging       *)
(* buffer for the key, dbAnswer the answer of the state DB; calls names the  *)
(* lookups made, in order.                                                   *)

retrieveLatestState(n, c, key, staged, dbAnswer) ==
    IF c = ""
    THEN IF ~staged.exists
         THEN [vv |-> GetState(dbAnswer).vv, err |-> GetState(dbAnswer).err,
               calls |-> <<"publicUpdates.Get", "GetState">>]
         ELSE [vv |-> staged, err |-> NoErr, calls |-> <<"publicUpdates.Get">>]
    ELSE IF ~staged.exists
         THEN [vv |-> GetState(dbAnswer).vv, err |-> GetState(dbAnswer).err,
               calls |-> <<"hashUpdates.Get", "GetValueHash">>]
         ELSE [vv |-> staged, err |-> NoErr, calls |-> <<"hashUpdates.Get">>]

\* variant: the staging buffer's answer is passed over for the state DB's
retrieveLatestMetadata_DbOnly(n, c, key, staged, dbAnswer) ==
    [metadata |-> GetStateMetadata(dbAnswer).metadata,
     err |-> GetStateMetadata(dbAnswer).err,
     calls |-> IF c = ""
               THEN <<"publicUpdates.Get", "GetStateMetadata">>
               ELSE <<"hashUpdates.Get", "GetPrivateDataMetadataByHash">>]

retrieveLatestMetadata(n, c, key, staged, dbAnswer) ==
    IF c = ""
    THEN IF staged.exists
         THEN [metadata |-> staged.metadata, err |-> NoErr,
               calls |-> <<"publicUpdates.Get">>]
         ELSE [metadata |-> GetStateMetadata(dbAnswer).metadata,
               err |-> GetStateMetadata(dbAnswer).err,
               calls |-> <<"publicUpdates.Get", "GetStateMetadata">>]
    ELSE IF staged.exists
         THEN [metadata |-> staged.metadata, err |-> NoErr,
               calls |-> <<"hashUpdates.Get">>]
         ELSE [metadata |-> GetStateMetadata(dbAnswer).metadata,
               err |-> GetStateMetadata(dbAnswer).err,
               calls |-> <<"hashUpdates.Get", "GetPrivateDataMetadataByHash">>]

---------------------------------------------------------------------------
(* one iteration of the merge loop of prepareTxOps (lines 27-55).           *)
(* Returns the map, the error that ends prepareTxOps (if any) and the        *)
(* resolver calls made.                                                      *)

\* variant: a metadata-only entry whose key is missing is kept
mergeEntry_KeepsMissing(t, ck, staged, dbAnswer) ==
    LET keyop == t[ck]
    IN  IF isDelete(keyop) \/ isUpsertAndMetadataUpdate(keyop)
        THEN [txops |-> t, err |-> NoErr, calls |-> <<>>]
        ELSE IF isOnlyUpsert(keyop)
        THEN LET r == retrieveLatestMetadata(ck.ns, ck.coll, ck.key, staged, dbAnswer)
             IN  IF r.err # NoErr
                 THEN [txops |-> t, err |-> r.err, calls |-> r.calls]
                 ELSE [txops |-> [t EXCEPT ![ck].metadata = r.metadata],
                       err |-> NoErr, calls |-> r.calls]
        ELSE LET r == retrieveLatestState(ck.ns, ck.coll, ck.key, staged, dbAnswer)
             IN  IF r.err # NoErr
                 THEN [txops |-> t, err |-> r.err, calls |-> r.calls]
                 ELSE IF r.vv.exists
                 THEN [txops |-> [t EXCEPT ![ck].value = r.vv.value],
                       err |-> NoErr, calls |-> r.calls]
                 ELSE [txops |-> t, err |-> NoErr, calls |-> r.calls]

mergeEntry(t, ck, staged, dbAnswer) ==
    LET keyop == t[ck]
    IN  IF isDelete(keyop) \/ isUpsertAndMetadataUpdate(keyop)
        THEN [txops |-> t, err |-> NoErr, calls |-> <<>>]
        ELSE IF isOnlyUpsert(keyop)
        THEN LET r == retrieveLatestMetadata(ck.ns, ck.coll, ck.key, staged, dbAnswer)
             IN  IF r.err # NoErr
                 THEN [txops |-> t, err |-> r.err, calls |-> r.calls]
                 ELSE [txops |-> [t EXCEPT ![ck].metadata = r.metadata],
                       err |-> NoErr, calls |-> r.calls]
        ELSE LET r == retrieveLatestState(ck.ns, ck.coll, ck.key, staged, dbAnswer)
             IN  IF r.err # NoErr
                 THEN [txops |-> t, err |-> r.err, calls |-> r.calls]
                 ELSE IF r.vv.exists
                 THEN [txops |-> [t EXCEPT ![ck].value = r.vv.value],
                       err |-> NoErr, calls |-> r.calls]
                 ELSE [txops |-> MapDelete(t, ck), err |-> NoErr, calls |-> r.calls]

---------------------------------------------------------------------------
(* history of the primitives applied, kept as section 4.1 of the            *)
(* specification words them: a set of flag bits and the last payloads        *)

ZeroRef ==
    [bits |-> {}, value |-> Nil, metadata |-> Nil, deps |-> NilDeps,
     depSnapshot |-> 0]

refTouch(r, ck) == IF ck \in DOMAIN r THEN r ELSE MapPut(r, ck, ZeroRef)

refWrite(r, ck, kvWrite) ==
    IF kvWrite.isDelete
    THEN [refTouch(r, ck) EXCEPT ![ck].bits = @ \cup {keyDelete}]
    ELSE [refTouch(r, ck) EXCEPT ![ck].bits = @ \cup {upsertVal},
                                 ![ck].value = kvWrite.value]

refWriteWithDep(r, ck, kvWrite, d, snap) ==
    [refWrite(r, ck, kvWrite) EXCEPT ![ck].deps = d, ![ck].depSnapshot = snap]

refMetadata(r, ck, metadataWrite) ==
    IF metadataWrite.entries = Nil
    THEN [refTouch(r, ck) EXCEPT ![ck].bits = @ \cup {metadataDelete}]
    ELSE IF Serialize(metadataWrite.entries).err # NoErr
    THEN r
    ELSE [refTouch(r, ck) EXCEPT ![ck].bits = @ \cup {metadataUpdate},
                                 ![ck].metadata = Serialize(metadataWrite.entries).bytes]

---------------------------------------------------------------------------
(* the program *)

Init ==
    /\ pc = "ns"
    /\ lineageSupported \in BOOLEAN
    \* IsOCC() is consulted in provenance mode only (line 74)
    /\ isOCC \in (IF lineageSupported THEN BOOLEAN ELSE {FALSE})
    /\ txops = EmptyMap
    /\ ns = ""
    /\ coll = ""
    /\ Writes = <<>>
    /\ wi = 1
    /\ deps = EmptyMap
    /\ depSnapshot = 0
    /\ items = 0
    /\ pending = {}
    /\ ret = [txops |-> EmptyMap, err |-> NoErr]
    /\ projected = EmptyMap
    /\ lookups = EmptyMap
    /\ ref = EmptyMap
    /\ droppedErr = FALSE
    /\ provElsewhere = FALSE

\* the next nsRWSet of rwset.NsRwSets: its Reads are scanned and, in
\* provenance mode, its markers are parsed into deps (lines 63-101)
BeginNs ==
    /\ pc = "ns"
    /\ \E n \in Namespaces, reads \in ReadsInputs,
          writes \in SeqsUpTo(WriteInputs, MaxItems - items) :
         /\ ns' = n
         /\ Writes' = writes
         /\ items' = items + Len(writes)
         /\ depSnapshot' = IF lineageSupported
                           THEN readSnapshot(reads, isOCC, MaxUint64)
                           ELSE 0
         /\ deps' = IF lineageSupported THEN buildDeps(writes, EmptyMap) ELSE EmptyMap
    /\ wi' = 1
    /\ coll' = ""
    /\ pc' = "writes"
    /\ UNCHANGED <<lineageSupported, isOCC, txops, pending, ret, projected,
                   lookups, ref, droppedErr, provElsewhere>>

\* one iteration of the loop over Writes (lines 102-111 or 114-116)
ApplyWrite ==
    /\ pc = "writes"
    /\ wi <= Len(Writes)
    /\ LET kvWrite == Writes[wi]
           ck == compositeKey(ns, "", kvWrite.key)
           keyDeps == IF kvWrite.key \in DOMAIN deps THEN deps[kvWrite.key] ELSE <<>>
       IN  IF lineageSupported
           THEN /\ txops' = applyRealWrite(txops, ns, kvWrite, deps, depSnapshot)
                /\ ref' = IF HasSuffix(kvWrite.key, ProvSuffix)
                          THEN ref
                          ELSE refWriteWithDep(ref, ck, kvWrite, keyDeps, depSnapshot)
           ELSE /\ txops' = applyKVWrite(txops, ns, "", kvWrite)
                /\ ref' = refWrite(ref, ck, kvWrite)
    /\ wi' = wi + 1
    /\ UNCHANGED <<pc, lineageSupported, isOCC, ns, coll, Writes, deps,
                   depSnapshot, items, pending, ret, projected, lookups,
                   droppedErr, provElsewhere>>

\* the loop over Writes is over; deps and depSnapshot go out of use
EndWrites ==
    /\ pc = "writes"
    /\ wi > Len(Writes)
    /\ pc' = "meta"
    /\ Writes' = <<>>
    /\ wi' = 1
    /\ deps' = EmptyMap
    /\ depSnapshot' = 0
    /\ UNCHANGED <<lineageSupported, isOCC, txops, ns, coll, items, pending,
                   ret, projected, lookups, ref, droppedErr, provElsewhere>>

\* one iteration of the loop over MetadataWrites (lines 120-122); the error
\* applyMetadata returns is discarded
ApplyMetadataWrite ==
    /\ pc = "meta"
    /\ items < MaxItems
    /\ \E kvMetadataWrite \in MetadataWriteInputs :
         LET r == applyMetadata(txops, ns, "", kvMetadataWrite)
         IN  /\ txops' = r.txops
             /\ droppedErr' = (droppedErr \/ r.err # NoErr)
             /\ ref' = refMetadata(ref, compositeKey(ns, "", kvMetadataWrite.key),
                                   kvMetadataWrite)
             /\ provElsewhere' =
                    (provElsewhere \/ HasSuffix(kvMetadataWrite.key, ProvSuffix))
    /\ items' = items + 1
    /\ UNCHANGED <<pc, lineageSupported, isOCC, ns, coll, Writes, wi, deps,
                   depSnapshot, pending, ret, projected, lookups>>

EndMetadataWrites ==
    /\ pc = "meta"
    /\ pc' = "coll"
    /\ UNCHANGED <<lineageSupported, isOCC, txops, ns, coll, Writes, wi, deps,
                   depSnapshot, items, pending, ret, projected, lookups, ref,
                   droppedErr, provElsewhere>>

\* the next collHashRWset of nsRWSet.CollHashedRwSets (lines 125-126)
BeginColl ==
    /\ pc = "coll"
    /\ \E c \in Collections : coll' = c
    /\ pc' = "hwrites"
    /\ UNCHANGED <<lineageSupported, isOCC, txops, ns, Writes, wi, deps,
                   depSnapshot, items, pending, ret, projected, lookups, ref,
                   droppedErr, provElsewhere>>

\* one iteration of the loop over HashedWrites (lines 127-135)
ApplyHashedWrite ==
    /\ pc = "hwrites"
    /\ items < MaxItems
    /\ \E hashedWrite \in HashedWriteInputs :
         /\ txops' = applyKVWrite(txops, ns, coll, hashedWrite)
         /\ ref' = refWrite(ref, compositeKey(ns, coll, hashedWrite.key), hashedWrite)
         /\ provElsewhere' = (provElsewhere \/ HasSuffix(hashedWrite.key, ProvSuffix))
    /\ items' = items + 1
    /\ UNCHANGED <<pc, lineageSupported, isOCC, ns, coll, Writes, wi, deps,
                   depSnapshot, pending, ret, projected, lookups, droppedErr>>

EndHashedWrites ==
    /\ pc = "hwrites"
    /\ pc' = "hmeta"
    /\ UNCHANGED <<lineageSupported, isOCC, txops, ns, coll, Writes, wi, deps,
                   depSnapshot, items, pending, ret, projected, lookups, ref,
                   droppedErr, provElsewhere>>

\* one iteration of the loop over the collection's MetadataWrites
\* (lines 137-144); the error applyMetadata returns is discarded
ApplyHashedMetadataWrite ==
    /\ pc = "hmeta"
    /\ items < MaxItems
    /\ \E metadataWrite \in HashedMetadataWriteInputs :
         LET r == applyMetadata(txops, ns, coll, metadataWrite)
         IN  /\ txops' = r.txops
             /\ droppedErr' = (droppedErr \/ r.err # NoErr)
             /\ ref' = refMetadata(ref, compositeKey(ns, coll, metadataWrite.key),
                                   metadataWrite)
             /\ provElsewhere' =
                    (provElsewhere \/ HasSuffix(metadataWrite.key, ProvSuffix))
    /\ items' = items + 1
    /\ UNCHANGED <<pc, lineageSupported, isOCC, ns, coll, Writes, wi, deps,
                   depSnapshot, pending, ret, projected, lookups>>

EndColl ==
    /\ pc = "hmeta"
    /\ pc' = "coll"
    /\ coll' = ""
    /\ UNCHANGED <<lineageSupported, isOCC, txops, ns, Writes, wi, deps,
                   depSnapshot, items, pending, ret, projected, lookups, ref,
                   droppedErr, provElsewhere>>

EndNs ==
    /\ pc = "coll"
    /\ pc' = "ns"
    /\ ns' = ""
    /\ UNCHANGED <<lineageSupported, isOCC, txops, coll, Writes, wi, deps,
                   depSnapshot, items, pending, ret, projected, lookups, ref,
                   droppedErr, provElsewhere>>

\* applyTxRwset returns nil (line 147); prepareTxOps drops what it returns
\* (line 25) and starts to range over the map (line 27)
EndProjection ==
    /\ pc = "ns"
    /\ pc' = "merge"
    /\ pending' = DOMAIN txops
    /\ projected' = txops
    /\ UNCHANGED <<lineageSupported, isOCC, txops, ns, coll, Writes, wi, deps,
                   depSnapshot, items, ret, lookups, ref, droppedErr,
                   provElsewhere>>

\* one iteration of the merge loop, on any entry not visited yet; a
\* resolver error ends prepareTxOps with (nil, err)
MergeVisit ==
    /\ pc = "merge"
    /\ \E ck \in pending, staged \in StagedInputs, dbAnswer \in DbInputs :
         LET m == mergeEntry(txops, ck, staged, dbAnswer)
         IN  /\ txops' = m.txops
             /\ pending' = pending \ {ck}
             /\ lookups' =
                  IF m.calls = <<>>
                  THEN lookups
                  ELSE MapPut(lookups, ck,
                              [staged |-> staged,
                               db |-> IF Len(m.calls) = 2 THEN dbAnswer ELSE NoDb,
                               calls |-> m.calls])
             /\ IF m.err # NoErr
                THEN /\ pc' = "done"
                     /\ ret' = [txops |-> EmptyMap, err |-> m.err]
                ELSE /\ pc' = pc
                     /\ ret' = ret
    /\ UNCHANGED <<lineageSupported, isOCC, ns, coll, Writes, wi, deps,
                   depSnapshot, items, projected, ref, droppedErr, provElsewhere>>

\* return txops, nil (line 57)
Return ==
    /\ pc = "merge"
    /\ pending = {}
    /\ pc' = "done"
    /\ ret' = [txops |-> txops, err |-> NoErr]
    /\ UNCHANGED <<lineageSupported, isOCC, txops, ns, coll, Writes, wi, deps,
                   depSnapshot, items, pending, projected, lookups, ref,
                   droppedErr, provElsewhere>>

Next ==
    \/ BeginNs
    \/ ApplyWrite
    \/ EndWrites
    \/ ApplyMetadataWrite
    \/ EndMetadataWrites
    \/ BeginColl
    \/ ApplyHashedWrite
    \/ EndHashedWrites
    \/ ApplyHashedMetadataWrite
    \/ EndColl
    \/ EndNs
    \/ EndProjection
    \/ MergeVisit
    \/ Return

Spec == Init /\ [][Next]_vars

---------------------------------------------------------------------------
(* Properties *)

\* prepareTxOps returned a TxOps and a nil error
Returned == pc = "done" /\ ret.err = NoErr

\* the merge loop has gone past entry ck without an error
Visited(ck) == \/ Returned
               \/ pc = "merge" /\ ck \in DOMAIN projected /\ ck \notin pending

\* the flag of a primitive-by-primitive OR: the sum of a set of distinct bits
SumBits(bits) ==
    (IF upsertVal \in bits THEN upsertVal ELSE 0)
      + (IF metadataUpdate \in bits THEN metadataUpdate ELSE 0)
      + (IF metadataDelete \in bits THEN metadataDelete ELSE 0)
      + (IF keyDelete \in bits THEN keyDelete ELSE 0)

\* the resolver's inputs for ck, as the merge loop saw them
LatestExists(ck) == lookups[ck].staged.exists \/ lookups[ck].db.vv.exists
LatestValue(ck) ==
    IF lookups[ck].staged.exists
    THEN lookups[ck].staged.value
    ELSE lookups[ck].db.vv.value
LatestMetadata(ck) ==
    IF lookups[ck].staged.exists
    THEN lookups[ck].staged.metadata
    ELSE IF lookups[ck].db.vv.exists THEN lookups[ck].db.vv.metadata ELSE Nil

OnlyUpsertKeys == {ck \in DOMAIN projected : projected[ck].flag = upsertVal}

MetadataOnlyKeys ==
    {ck \in DOMAIN projected :
        /\ ~HasBit(projected[ck].flag, upsertVal)
        /\ ~HasBit(projected[ck].flag, keyDelete)
        /\ \/ HasBit(projected[ck].flag, metadataUpdate)
           \/ HasBit(projected[ck].flag, metadataDelete)}

DeleteKeys == {ck \in DOMAIN projected : HasBit(projected[ck].flag, keyDelete)}

FullySpecified(keyops) ==
    /\ HasBit(keyops.flag, upsertVal)
    /\ HasBit(keyops.flag, metadataUpdate) \/ HasBit(keyops.flag, metadataDelete)

\* C1: an entry that after projection has only UPSERT_VAL set leaves
\* prepareTxOps with its metadata equal to the key's latest metadata (the
\* staged value's metadata when the key is staged, otherwise the state DB's,
\* nil when there is none), read through the lookups of its kind (public or
\* hashed), with its value and flag as projection left them.
C1_OnlyUpsertMergesMetadata ==
    \A ck \in OnlyUpsertKeys :
        Visited(ck) =>
            /\ ck \in DOMAIN txops
            /\ ck \in DOMAIN lookups
            /\ txops[ck].metadata = LatestMetadata(ck)
            /\ txops[ck].value = projected[ck].value
            /\ txops[ck].flag = projected[ck].flag
            /\ Returned => ret.txops[ck] = txops[ck]
            /\ lookups[ck].calls[1] =
                   (IF ck.coll = "" THEN "publicUpdates.Get" ELSE "hashUpdates.Get")

\* C1 witness: prepareTxOps returned an only-upsert entry whose metadata was
\* taken from the staging buffer, and one whose metadata came from the DB
C1_Witness ==
    /\ Returned
    /\ \E ck \in OnlyUpsertKeys :
          /\ lookups[ck].staged = StagedVV
          /\ ret.txops[ck].metadata = StagedVV.metadata
    /\ \E ck \in OnlyUpsertKeys :
          /\ ~lookups[ck].staged.exists
          /\ ret.txops[ck].metadata = CommittedVV.metadata

\* C2: an entry that after projection has only a metadata dimension set is in
\* the returned TxOps if and only if the key exists in the latest state
\* (staging first, then the state DB); when present its value is the latest
\* state's value and its flag is unchanged.
C2_MetadataOnlyMergesValue ==
    \A ck \in MetadataOnlyKeys :
        Visited(ck) =>
            /\ ck \in DOMAIN lookups
            /\ (ck \in DOMAIN txops) <=> LatestExists(ck)
            /\ ck \in DOMAIN txops =>
                  /\ txops[ck].value = LatestValue(ck)
                  /\ txops[ck].flag = projected[ck].flag
                  /\ txops[ck].metadata = projected[ck].metadata
            /\ Returned => (DOMAIN ret.txops = DOMAIN txops /\
                            (ck \in DOMAIN txops => ret.txops[ck] = txops[ck]))

\* C2 witness: prepareTxOps returned with one metadata-only entry removed
\* (key in neither staging nor DB) and another kept with the DB's value
C2_Witness ==
    /\ Returned
    /\ \E ck \in MetadataOnlyKeys :
          ck \notin DOMAIN ret.txops /\ ~LatestExists(ck)
    /\ \E ck \in MetadataOnlyKeys :
          /\ ck \in DOMAIN ret.txops
          /\ ~lookups[ck].staged.exists
          /\ ret.txops[ck].value = CommittedVV.value

\* C3: delete dominance: for an entry with KEY_DELETE set, whatever other
\* bits are set, prepareTxOps makes no resolver read for the key, leaves the
\* entry as projection left it, and keeps it in the returned TxOps.
C3_DeleteDominance ==
    pc \in {"merge", "done"} =>
        \A ck \in DeleteKeys :
            /\ ck \notin DOMAIN lookups
            /\ ck \in DOMAIN txops
            /\ txops[ck] = projected[ck]
            /\ Returned => (ck \in DOMAIN ret.txops /\ ret.txops[ck] = projected[ck])

\* C3 witness: prepareTxOps returned an entry projected as
\* KEY_DELETE|METADATA_UPDATE
C3_Witness ==
    /\ Returned
    /\ \E ck \in DeleteKeys :
          /\ projected[ck].flag = keyDelete + metadataUpdate
          /\ ck \in DOMAIN ret.txops

\* C4: fully-specified fixpoint: when every projected entry has UPSERT_VAL and
\* a metadata dimension set, the merge loop leaves the map identical and
\* makes no resolver call.
C4_FullySpecifiedFixpoint ==
    (pc \in {"merge", "done"} /\ \A ck \in DOMAIN projected : FullySpecified(projected[ck]))
        => /\ txops = projected
           /\ lookups = EmptyMap
           /\ pc = "done" => (ret.err = NoErr /\ ret.txops = projected)

\* C4 witness: prepareTxOps returned a non-empty TxOps all of whose entries
\* were fully specified, one of them as UPSERT_VAL|METADATA_DELETE
C4_Witness ==
    /\ Returned
    /\ \A ck \in DOMAIN projected : FullySpecified(projected[ck])
    /\ \E ck \in DOMAIN projected : projected[ck].flag = upsertVal + metadataDelete

\* C5: during projection every entry's flag is the bitwise OR of the flag
\* bits of the primitives applied to its key, and each payload slot holds
\* what the last primitive that wrote it stored.
C5_FlagIsOrOfPrimitives ==
    pc \notin {"merge", "done"} =>
        /\ DOMAIN txops = DOMAIN ref
        /\ \A ck \in DOMAIN txops :
              /\ txops[ck].flag = SumBits(ref[ck].bits)
              /\ txops[ck].value = ref[ck].value
              /\ txops[ck].metadata = ref[ck].metadata
              /\ txops[ck].deps = ref[ck].deps
              /\ txops[ck].depSnapshot = ref[ck].depSnapshot

\* C6: no entry of the TxOps has METADATA_UPDATE and METADATA_DELETE both
\* set, nor UPSERT_VAL and KEY_DELETE both set.
C6_MutuallyExclusiveBits ==
    \A t \in {txops, ret.txops} :
        \A ck \in DOMAIN t :
            /\ ~(HasBit(t[ck].flag, metadataUpdate) /\ HasBit(t[ck].flag, metadataDelete))
            /\ ~(HasBit(t[ck].flag, upsertVal) /\ HasBit(t[ck].flag, keyDelete))

\* C7: when the serialization of a metadata write's entries failed during
\* projection, prepareTxOps returns the serializer's error.
C7_SerializerErrorSurfaces ==
    (pc = "done" /\ droppedErr) => ret.err = SerializeErr

\* C8 as stated: in provenance mode no CompositeKey of the returned TxOps has
\* a key ending in "_prov", whatever the RWSet holds.
C8_NoProvKeyAnyRWSet ==
    (lineageSupported /\ Returned) =>
        \A ck \in DOMAIN ret.txops : ~HasSuffix(ck.key, ProvSuffix)

\* C8 amended: in provenance mode, for an RWSet none of whose metadata writes
\* and hashed-collection writes has a key ending in "_prov", no CompositeKey
\* of the TxOps (while it is built, and as returned) has a key ending in "_prov".
C8_NoProvKeyFromWrites ==
    (lineageSupported /\ ~provElsewhere) =>
        \A ck \in DOMAIN txops \cup DOMAIN ret.txops : ~HasSuffix(ck.key, ProvSuffix)

\* C8 witness: in provenance mode prepareTxOps returned an entry that carries
\* the dependencies of a marker (so a "_prov" write was in the RWSet), and no
\* metadata or hashed write had a "_prov" key
C8_Witness ==
    /\ lineageSupported
    /\ ~provElsewhere
    /\ Returned
    /\ \E ck \in DOMAIN ret.txops : ret.txops[ck].deps = <<<<"y">>, <<"z">>>>

\* the non-empty segments of an underscore-delimited list, in order
Segments(value) == SelectSeq(Split(value, "_"), LAMBDA seg : Len(seg) > 0)

\* C9: in provenance mode, once the namespace's writes are applied, a real
\* write of X is recorded with the non-empty segments of the value of the
\* marker X_prov of the namespace's writes, and with empty deps when the
\* namespace's writes hold no such marker.
C9_DepsOfMarker ==
    (lineageSupported /\ pc = "writes") =>
        \A j \in 1..(wi - 1) :
            ~HasSuffix(Writes[j].key, ProvSuffix) =>
                LET X == Writes[j].key
                    ck == compositeKey(ns, "", X)
                    markers == {i \in 1..Len(Writes) : Writes[i].key = X \o ProvSuffix}
                IN  /\ ck \in DOMAIN txops
                    /\ IF markers = {}
                       THEN txops[ck].deps = <<>>
                       ELSE \E i \in markers : txops[ck].deps = Segments(Writes[i].value)

\* what C10 says of the entry of key ck after metadata write mw was applied
\* to a map in which the entry's flag was before (0 when it was not there)
C10_Post(mw, ck, before, t) ==
    /\ mw.entries \in {Nil, <<>>} =>
          /\ ck \in DOMAIN t
          /\ HasBit(t[ck].flag, metadataDelete)
          /\ HasBit(t[ck].flag, metadataUpdate) => HasBit(before, metadataUpdate)
    /\ (mw.entries \notin {Nil, <<>>} /\ Serialize(mw.entries).err = NoErr) =>
          /\ ck \in DOMAIN t
          /\ HasBit(t[ck].flag, metadataUpdate)
          /\ t[ck].metadata = Serialize(mw.entries).bytes

\* C10: a metadata write with nil or zero-length entries gives the key's entry
\* METADATA_DELETE and not METADATA_UPDATE; any other is serialized and gives
\* the entry METADATA_UPDATE with the serialized bytes as metadata.
C10_MetadataWriteProjection ==
    [][\A mw \in MetadataWriteInputs \cup HashedMetadataWriteInputs :
          LET ck == compositeKey(ns, coll, mw.key)
              before == IF ck \in DOMAIN txops THEN txops[ck].flag ELSE 0
          IN  (/\ pc \in {"meta", "hmeta"}
               /\ items' = items + 1
               /\ txops' = applyMetadata(txops, ns, coll, mw).txops)
                  => C10_Post(mw, ck, before, txops')]_vars

====
